---- MODULE Spec2Model ----
(***************************************************************************)
(* Model of linting/utils/src/lib.rs (ink! linting utilities).             *)
(*                                                                         *)
(* The library is a set of pure queries over the HIR of one compilation    *)
(* unit.  The HIR is the table Crate below: every shape of declaration the *)
(* queries distinguish occurs in it.  The inputs of the queries (lists of  *)
(* item ids, one item id, two type references) are drawn by Init; every    *)
(* action applies one query to them and records what it returned.          *)
(***************************************************************************)
EXTENDS Integers, Sequences, FiniteSets, TLC

\* Longest list of top-level item ids handed to a query.
MaxLen == 3

(***************************************************************************)
(* Option<T>: None is the empty sequence, Some(x) the one-element sequence. *)
(***************************************************************************)
None == <<>>
Some(x) == <<x>>

(***************************************************************************)
(* rustc_hir::Ty.  A type reference is a node of the tree (hir_id) with a  *)
(* kind.  TyKind::Path carries a QPath: QPath::Resolved has the written    *)
(* segments and the resolution `res`; QPath::TypeRelative has none.        *)
(***************************************************************************)
NoRes == [tag |-> "None", def_id |-> 0]
ResDef(def_id) == [tag |-> "Def", def_id |-> def_id]

TyPathResolved(hir_id, segments, res) ==
    [hir_id |-> hir_id, kind |-> "Path", qpath |-> "Resolved",
     segments |-> segments, res |-> res, elems |-> <<>>]
TyPathTypeRelative(hir_id, segments) ==
    [hir_id |-> hir_id, kind |-> "Path", qpath |-> "TypeRelative",
     segments |-> segments, res |-> NoRes, elems |-> <<>>]
TyTup(hir_id, elems) ==
    [hir_id |-> hir_id, kind |-> "Tup", qpath |-> "None",
     segments |-> <<>>, res |-> NoRes, elems |-> elems]
TyTraitObject(hir_id, bounds) ==
    [hir_id |-> hir_id, kind |-> "TraitObject", qpath |-> "None",
     segments |-> <<>>, res |-> NoRes, elems |-> bounds]
NoTy == [hir_id |-> 0, kind |-> "None", qpath |-> "None",
         segments |-> <<>>, res |-> NoRes, elems |-> <<>>]

(***************************************************************************)
(* Definitions of the compilation unit that paths resolve to.  The item    *)
(* with id n owns definition n; the traits live in other crates.           *)
(***************************************************************************)
DefContract == 1          \* struct Contract (the contract type T)
DefOther == 3             \* struct Other (an unrelated type U)
DefContractEnv == 101     \* ink_env::contract::ContractEnv
DefLocalContractEnv == 102 \* a trait of the user's crate with the same name
DefApi == 103             \* a trait of the user's crate, used as dyn Api

\* The def path the compiler reports for a definition id.
DefPath(def_id) ==
    CASE def_id = DefContractEnv -> <<"ink_env", "contract", "ContractEnv">>
      [] def_id = DefLocalContractEnv -> <<"my_contract", "ContractEnv">>
      [] def_id = DefApi -> <<"my_contract", "Api">>
      [] OTHER -> <<"my_contract", "item">>

(***************************************************************************)
(* Attributes.  An attribute is the sequence of its tokens; the attribute  *)
(* set of a node is a sequence of attributes.                              *)
(***************************************************************************)
INK_STORAGE_1 == "__ink_dylint_Storage"
INK_STORAGE_2 == "fortanix"

AttrStorageNew == <<"cfg", "not", "target_vendor", "fortanix">>
AttrStorageOld == <<"cfg", "not", "feature", "__ink_dylint_Storage">>
AttrDerive == <<"derive", "Debug">>
AttrAllow == <<"allow", "dead_code">>

(***************************************************************************)
(* rustc_hir::Item, by kind.  Fields a kind does not have hold a filler.   *)
(***************************************************************************)
NoBody == [value |-> [kind |-> "None", stmts |-> <<>>]]
BlockBody(stmts) == [value |-> [kind |-> "Block", stmts |-> stmts]]
TupBody == [value |-> [kind |-> "Tup", stmts |-> <<>>]]
StmtItem(id) == [kind |-> "Item", item |-> id]
StmtSemi == [kind |-> "Semi", item |-> 0]

ItemStruct(attrs) ==
    [kind |-> "Struct", attrs |-> attrs, ty |-> NoTy, body |-> NoBody,
     of_trait |-> None, self_ty |-> NoTy]
ItemEnum(attrs) ==
    [kind |-> "Enum", attrs |-> attrs, ty |-> NoTy, body |-> NoBody,
     of_trait |-> None, self_ty |-> NoTy]
ItemConst(ty, body) ==
    [kind |-> "Const", attrs |-> <<>>, ty |-> ty, body |-> body,
     of_trait |-> None, self_ty |-> NoTy]
ItemImpl(of_trait, self_ty) ==
    [kind |-> "Impl", attrs |-> <<AttrAllow>>, ty |-> NoTy, body |-> NoBody,
     of_trait |-> of_trait, self_ty |-> self_ty]

(***************************************************************************)
(* The HIR of the compilation unit: item id -> item.                       *)
(*                                                                         *)
(*   1  #[cfg(not(target_vendor = "fortanix"))] struct Contract            *)
(*   2  #[cfg(not(feature = "__ink_dylint_Storage"))] struct Legacy        *)
(*   3  #[derive(Debug)] struct Other                                      *)
(*   4  #[cfg(not(target_vendor = "fortanix"))] enum Event                 *)
(*   5  impl ink_env::contract::ContractEnv for Contract                   *)
(*   6  impl self::Contract { .. }                                         *)
(*   7  impl my_contract::ContractEnv for Contract                         *)
(*   8  impl Other { .. }                                                  *)
(*   9  impl ink_env::contract::ContractEnv for Other                      *)
(*  10  impl ink_env::contract::ContractEnv for dyn Api                    *)
(*  11  impl dyn Api { .. }                                                *)
(*  12  const _: () = { <5>; 0; <6>; <13> };                               *)
(*  13  const _: () = { <8> };                                             *)
(*  14  const N: usize = { <7>; 0 };                                       *)
(*  15  const _: () = ();                                                  *)
(*  16  impl Contract { .. }                                               *)
(***************************************************************************)
Crate ==
    << ItemStruct(<<AttrDerive, AttrStorageNew>>),
       ItemStruct(<<AttrStorageOld>>),
       ItemStruct(<<AttrDerive>>),
       ItemEnum(<<AttrStorageNew>>),
       ItemImpl(Some([def_id |-> DefContractEnv]),
                TyPathResolved(51, <<"Contract">>, ResDef(DefContract))),
       ItemImpl(None,
                TyPathResolved(61, <<"self", "Contract">>, ResDef(DefContract))),
       ItemImpl(Some([def_id |-> DefLocalContractEnv]),
                TyPathResolved(71, <<"Contract">>, ResDef(DefContract))),
       ItemImpl(None,
                TyPathResolved(81, <<"Other">>, ResDef(DefOther))),
       ItemImpl(Some([def_id |-> DefContractEnv]),
                TyPathResolved(91, <<"Other">>, ResDef(DefOther))),
       ItemImpl(Some([def_id |-> DefContractEnv]),
                TyTraitObject(101, <<DefApi>>)),
       ItemImpl(None,
                TyTraitObject(111, <<DefApi>>)),
       ItemConst(TyTup(121, <<>>),
                 BlockBody(<<StmtItem(5), StmtSemi, StmtItem(6), StmtItem(13)>>)),
       ItemConst(TyTup(131, <<>>), BlockBody(<<StmtItem(8)>>)),
       ItemConst(TyPathResolved(141, <<"usize">>, [tag |-> "PrimTy", def_id |-> 0]),
                 BlockBody(<<StmtItem(7), StmtSemi>>)),
       ItemConst(TyTup(151, <<>>), TupBody),
       ItemImpl(None,
                TyPathResolved(161, <<"Contract">>, ResDef(DefContract))) >>

ItemIds == DOMAIN Crate

\* cx.tcx.hir().item(id)
Item(id) == Crate[id]

\* cx.tcx.hir().attrs(hir_id), for the hir id of an item
Attrs(hir_id) == Crate[hir_id].attrs

\* cx.tcx.hir().body(body_id): the body is stored with its constant
Body(id) == Crate[id].body

\* cx.tcx.impl_trait_ref(owner_id): the trait an impl block implements
impl_trait_ref(owner_id) ==
    IF Crate[owner_id].of_trait = None
    THEN None
    ELSE Some([def_id |-> Crate[owner_id].of_trait[1].def_id])

\* clippy::match_def_path: the definition's path, segment by segment
match_def_path(def_id, path) == DefPath(def_id) = path

(***************************************************************************)
(* format!("{:?}", attrs): the rendering of an attribute set is the text   *)
(* of its attributes one after the other; str::contains looks for a token  *)
(* anywhere in that text.                                                  *)
(***************************************************************************)
RECURSIVE FormatDebug(_)
FormatDebug(attrs) ==
    IF attrs = <<>> THEN <<>>
    ELSE Head(attrs) \o FormatDebug(Tail(attrs))

Contains(text, token) == \E i \in DOMAIN text : text[i] = token

has_storage_attr(hir) ==
    LET attrs == FormatDebug(Attrs(hir))
    IN Contains(attrs, INK_STORAGE_1) \/ Contains(attrs, INK_STORAGE_2)

(***************************************************************************)
(* find_storage_struct: Iterator::find over the ids, first match wins.     *)
(***************************************************************************)
\* Faulty variant: the ItemKind::Struct condition is left out.
RECURSIVE find_storage_struct_any_kind(_)
find_storage_struct_any_kind(item_ids) ==
    IF item_ids = <<>> THEN None
    ELSE IF has_storage_attr(Head(item_ids))
         THEN Some(Head(item_ids))
         ELSE find_storage_struct_any_kind(Tail(item_ids))

RECURSIVE find_storage_struct(_)
find_storage_struct(item_ids) ==
    IF item_ids = <<>> THEN None
    ELSE LET item_id == Head(item_ids)
             item == Item(item_id)
         IN IF has_storage_attr(item_id) /\ item.kind = "Struct"
            THEN Some(item_id)
            ELSE find_storage_struct(Tail(item_ids))

(***************************************************************************)
(* items_in_unnamed_const: the fold over block.stmts pushes the id of each *)
(* StmtKind::Item and descends into nothing.                               *)
(***************************************************************************)
RECURSIVE FoldStmts(_, _)
FoldStmts(acc, stmts) ==
    IF stmts = <<>> THEN acc
    ELSE LET stmt == Head(stmts)
         IN FoldStmts(IF stmt.kind = "Item" THEN Append(acc, stmt.item) ELSE acc,
                      Tail(stmts))

\* Faulty variant: descends into the nested constants.
RECURSIVE items_in_unnamed_const_deep(_)
items_in_unnamed_const_deep(id) ==
    LET item == Item(id)
        Deep[k \in 0..Len(Body(id).value.stmts)] ==
            IF k = 0 THEN <<>>
            ELSE LET stmt == Body(id).value.stmts[k]
                 IN IF stmt.kind = "Item"
                    THEN Deep[k - 1] \o <<stmt.item>>
                             \o items_in_unnamed_const_deep(stmt.item)
                    ELSE Deep[k - 1]
    IN IF /\ item.kind = "Const"
          /\ item.ty.kind = "Tup" /\ item.ty.elems = <<>>
          /\ Body(id).value.kind = "Block"
       THEN Deep[Len(Body(id).value.stmts)]
       ELSE <<>>

\* Faulty variant: the TyKind::Tup([]) condition is left out.
items_in_unnamed_const_any_ty(id) ==
    LET item == Item(id)
    IN IF item.kind = "Const" /\ Body(id).value.kind = "Block"
       THEN FoldStmts(<<>>, Body(id).value.stmts)
       ELSE <<>>

items_in_unnamed_const(id) ==
    LET item == Item(id)
    IN IF /\ item.kind = "Const"
          /\ item.ty.kind = "Tup" /\ item.ty.elems = <<>>
          /\ Body(id).value.kind = "Block"
       THEN FoldStmts(<<>>, Body(id).value.stmts)
       ELSE <<>>

(***************************************************************************)
(* expand_unnamed_consts: the fold pushes each id, then appends the ids    *)
(* nested in it.                                                           *)
(***************************************************************************)
RECURSIVE FoldExpand(_, _)
FoldExpand(acc, item_ids) ==
    IF item_ids = <<>> THEN acc
    ELSE FoldExpand(Append(acc, Head(item_ids))
                        \o items_in_unnamed_const(Head(item_ids)),
                    Tail(item_ids))

\* Faulty variant: the nested ids are pushed before the id itself.
RECURSIVE FoldExpandNestedFirst(_, _)
FoldExpandNestedFirst(acc, item_ids) ==
    IF item_ids = <<>> THEN acc
    ELSE FoldExpandNestedFirst(
             (acc \o items_in_unnamed_const(Head(item_ids)))
                 \o <<Head(item_ids)>>,
             Tail(item_ids))

expand_unnamed_consts_nested_first(item_ids) ==
    FoldExpandNestedFirst(<<>>, item_ids)

\* Faulty variant: nothing is appended.
expand_unnamed_consts_identity(item_ids) == item_ids

expand_unnamed_consts(item_ids) == FoldExpand(<<>>, item_ids)

(***************************************************************************)
(* find_contract_ty_hir: Iterator::find_map, first ContractEnv impl wins.  *)
(***************************************************************************)
IsContractEnvImpl(item_id) ==
    LET item == Item(item_id)
        trait_ref == impl_trait_ref(item_id)
    IN /\ item.kind = "Impl"
       /\ trait_ref # None
       /\ match_def_path(trait_ref[1].def_id,
                         <<"ink_env", "contract", "ContractEnv">>)

\* Faulty variant: the match_def_path condition is left out.
RECURSIVE find_contract_ty_hir_any_trait(_)
find_contract_ty_hir_any_trait(item_ids) ==
    IF item_ids = <<>> THEN None
    ELSE LET item == Item(Head(item_ids))
         IN IF item.kind = "Impl" /\ impl_trait_ref(Head(item_ids)) # None
            THEN Some(item.self_ty)
            ELSE find_contract_ty_hir_any_trait(Tail(item_ids))

RECURSIVE find_contract_ty_hir(_)
find_contract_ty_hir(item_ids) ==
    IF item_ids = <<>> THEN None
    ELSE IF IsContractEnvImpl(Head(item_ids))
         THEN Some(Item(Head(item_ids)).self_ty)
         ELSE find_contract_ty_hir(Tail(item_ids))

(***************************************************************************)
(* eq_hir_struct_tys: the match on the pair of kinds.                      *)
(***************************************************************************)
\* Faulty variant: compares the spelling of the paths.
eq_hir_struct_tys_by_segments(lhs, rhs) ==
    CASE lhs.kind = "Path" /\ lhs.qpath = "Resolved"
         /\ rhs.kind = "Path" /\ rhs.qpath = "Resolved"
             -> lhs.segments = rhs.segments
      [] OTHER -> FALSE

\* Faulty variant: types of other shapes are compared by structure.
eq_hir_struct_tys_structural(lhs, rhs) ==
    CASE lhs.kind = "Path" /\ lhs.qpath = "Resolved"
         /\ rhs.kind = "Path" /\ rhs.qpath = "Resolved"
             -> lhs.res = rhs.res
      [] OTHER -> lhs.kind = rhs.kind /\ lhs.elems = rhs.elems

eq_hir_struct_tys(lhs, rhs) ==
    CASE lhs.kind = "Path" /\ lhs.qpath = "Resolved"
         /\ rhs.kind = "Path" /\ rhs.qpath = "Resolved"
             -> lhs.res = rhs.res
      [] OTHER -> FALSE

(***************************************************************************)
(* find_contract_impl_id: `?` on the contract type, then Iterator::find    *)
(* of the first inherent impl whose self type is the contract type.        *)
(***************************************************************************)
RECURSIVE FindImpl(_, _)
FindImpl(contract_struct_ty, item_ids) ==
    IF item_ids = <<>> THEN None
    ELSE LET item == Item(Head(item_ids))
         IN IF /\ item.kind = "Impl"
               /\ item.of_trait = None
               /\ eq_hir_struct_tys(contract_struct_ty, item.self_ty)
            THEN Some(Head(item_ids))
            ELSE FindImpl(contract_struct_ty, Tail(item_ids))

\* Faulty variant: the of_trait.is_none() condition is left out.
RECURSIVE FindImplAnyTrait(_, _)
FindImplAnyTrait(contract_struct_ty, item_ids) ==
    IF item_ids = <<>> THEN None
    ELSE LET item == Item(Head(item_ids))
         IN IF /\ item.kind = "Impl"
               /\ eq_hir_struct_tys(contract_struct_ty, item.self_ty)
            THEN Some(Head(item_ids))
            ELSE FindImplAnyTrait(contract_struct_ty, Tail(item_ids))

find_contract_impl_id_any_trait(item_ids) ==
    LET contract_struct_ty == find_contract_ty_hir(item_ids)
    IN IF contract_struct_ty = None THEN None
       ELSE FindImplAnyTrait(contract_struct_ty[1], item_ids)

\* Faulty variant: flattens the list before searching it.
find_contract_impl_id_flattening(item_ids) ==
    LET all_ids == expand_unnamed_consts(item_ids)
        contract_struct_ty == find_contract_ty_hir(all_ids)
    IN IF contract_struct_ty = None THEN None
       ELSE FindImpl(contract_struct_ty[1], all_ids)

find_contract_impl_id(item_ids) ==
    LET contract_struct_ty == find_contract_ty_hir(item_ids)
    IN IF contract_struct_ty = None THEN None
       ELSE FindImpl(contract_struct_ty[1], item_ids)

(***************************************************************************)
(* Inputs.                                                                 *)
(***************************************************************************)
ItemSeqs == UNION {[1..n -> ItemIds] : n \in 0..MaxLen}

\* Type references: the self types of the unit and a few further nodes.
TyRefs ==
    {Crate[i].self_ty : i \in {j \in ItemIds : Crate[j].kind = "Impl"}}
    \cup {TyPathTypeRelative(201, <<"Contract", "Assoc">>),
          TyPathTypeRelative(202, <<"Contract", "Assoc">>),
          TyTup(203, <<>>), TyTup(204, <<>>),
          TyTup(205, <<DefContract>>)}

NoItem == 0

VARIABLES
    module_items,   \* the item ids of the module, as the lint pass holds them
    id,             \* the item handed to items_in_unnamed_const
    lhs, rhs,       \* the type references handed to eq_hir_struct_tys
    calls,          \* the queries applied so far, in order
    item_ids,       \* the list handed to the last list query
    ret_item,       \* Option<ItemId> returned
    ret_items,      \* Vec<ItemId> returned
    ret_ty,         \* Option<&Ty> returned
    ret_bool        \* bool returned

vars == <<module_items, id, lhs, rhs, calls, item_ids,
          ret_item, ret_items, ret_ty, ret_bool>>

Init ==
    /\ \/ module_items \in ItemSeqs /\ id = NoItem /\ lhs = NoTy /\ rhs = NoTy
       \/ module_items = <<>> /\ id \in ItemIds /\ lhs = NoTy /\ rhs = NoTy
       \/ module_items = <<>> /\ id = NoItem /\ lhs \in TyRefs /\ rhs \in TyRefs
    /\ calls = <<>>
    /\ item_ids = <<>>
    /\ ret_item = None
    /\ ret_items = <<>>
    /\ ret_ty = None
    /\ ret_bool = FALSE

ListInput == id = NoItem /\ lhs = NoTy

FindStorageStruct ==
    /\ calls = <<>> /\ ListInput
    /\ calls' = <<"find_storage_struct">>
    /\ item_ids' = module_items
    /\ ret_item' = find_storage_struct(module_items)
    /\ UNCHANGED <<module_items, id, lhs, rhs, ret_items, ret_ty, ret_bool>>

ItemsInUnnamedConst ==
    /\ calls = <<>> /\ id # NoItem
    /\ calls' = <<"items_in_unnamed_const">>
    /\ ret_items' = items_in_unnamed_const(id)
    /\ UNCHANGED <<module_items, id, lhs, rhs, item_ids, ret_item, ret_ty, ret_bool>>

ExpandUnnamedConsts ==
    /\ calls = <<>> /\ ListInput
    /\ calls' = <<"expand_unnamed_consts">>
    /\ item_ids' = module_items
    /\ ret_items' = expand_unnamed_consts(module_items)
    /\ UNCHANGED <<module_items, id, lhs, rhs, ret_item, ret_ty, ret_bool>>

FindContractTyHir ==
    /\ calls = <<>> /\ ListInput
    /\ calls' = <<"find_contract_ty_hir">>
    /\ item_ids' = module_items
    /\ ret_ty' = find_contract_ty_hir(module_items)
    /\ UNCHANGED <<module_items, id, lhs, rhs, ret_item, ret_items, ret_bool>>

EqHirStructTys ==
    /\ calls = <<>> /\ lhs # NoTy
    /\ calls' = <<"eq_hir_struct_tys">>
    /\ ret_bool' = eq_hir_struct_tys(lhs, rhs)
    /\ UNCHANGED <<module_items, id, lhs, rhs, item_ids, ret_item, ret_items, ret_ty>>

\* find_contract_impl_id on the module's items as they are.
FindContractImplId ==
    /\ calls = <<>> /\ ListInput
    /\ calls' = <<"find_contract_impl_id">>
    /\ item_ids' = module_items
    /\ ret_item' = find_contract_impl_id(module_items)
    /\ UNCHANGED <<module_items, id, lhs, rhs, ret_items, ret_ty, ret_bool>>

\* find_contract_impl_id on the list expand_unnamed_consts returned: the
\* list is moved into the call.
FindContractImplIdExpanded ==
    /\ calls = <<"expand_unnamed_consts">>
    /\ calls' = Append(calls, "find_contract_impl_id")
    /\ item_ids' = ret_items
    /\ ret_item' = find_contract_impl_id(ret_items)
    /\ UNCHANGED <<module_items, id, lhs, rhs, ret_items, ret_ty, ret_bool>>

Next ==
    \/ FindStorageStruct
    \/ ItemsInUnnamedConst
    \/ ExpandUnnamedConsts
    \/ FindContractTyHir
    \/ EqHirStructTys
    \/ FindContractImplId
    \/ FindContractImplIdExpanded

Spec == Init /\ [][Next]_vars

(***************************************************************************)
(* Vocabulary of the properties.  These read the tree directly and use     *)
(* none of the queries above.                                              *)
(***************************************************************************)
Range(s) == {s[i] : i \in DOMAIN s}
Min(S) == CHOOSE x \in S : \A y \in S : x <= y
LastCall == IF calls = <<>> THEN "none" ELSE calls[Len(calls)]

\* The item is an impl block of ink_env::contract::ContractEnv.
ImplementsContractEnv(i) ==
    /\ Crate[i].kind = "Impl"
    /\ Crate[i].of_trait # None
    /\ Crate[i].of_trait[1].def_id = DefContractEnv

\* The item is an impl block that implements no trait.
IsInherentImpl(i) == Crate[i].kind = "Impl" /\ Crate[i].of_trait = None

\* The type reference is a path the compiler resolved.
IsResolvedPath(ty) == ty.kind = "Path" /\ ty.qpath = "Resolved"

\* The item is `const _: () = { .. }`.
IsUnnamedConst(i) ==
    /\ Crate[i].kind = "Const"
    /\ Crate[i].ty.kind = "Tup" /\ Crate[i].ty.elems = <<>>
    /\ Crate[i].body.value.kind = "Block"

\* The ids of the item statements written directly in the block of a
\* `const _: () = { .. }`, in source order; nothing for any other item.
NestedItems(i) ==
    IF IsUnnamedConst(i)
    THEN LET stmts == Crate[i].body.value.stmts
             At == {k \in DOMAIN stmts : stmts[k].kind = "Item"}
             Nth(n) == CHOOSE k \in At : Cardinality({j \in At : j <= k}) = n
         IN [n \in 1..Cardinality(At) |-> stmts[Nth(n)].item]
    ELSE <<>>

\* A list followed, element by element, by what is nested in the element.
RECURSIVE Flat(_)
Flat(s) ==
    IF s = <<>> THEN <<>>
    ELSE (<<Head(s)>> \o NestedItems(Head(s))) \o Flat(Tail(s))

\* The first inherent impl of `s` whose self type is same_type-equal to the
\* self type of the first ContractEnv impl of `s`.
ContractImplOf(s) ==
    LET E == {i \in DOMAIN s : ImplementsContractEnv(s[i])}
    IN IF E = {} THEN None
       ELSE LET T == Crate[s[Min(E)]].self_ty
                Q == {j \in DOMAIN s :
                         /\ IsInherentImpl(s[j])
                         /\ eq_hir_struct_tys(T, Crate[s[j]].self_ty)}
            IN IF Q = {} THEN None ELSE Some(s[Min(Q)])

(***************************************************************************)
(* C1  find_contract_impl_id(items) is none when no element of items       *)
(* implements ContractEnv; otherwise it is the first element of items that *)
(* is an inherent impl whose self type is same_type-equal to the self type *)
(* T of the first ContractEnv impl, or none when there is no such element. *)
(* A trait impl for T and an item of another type are never returned.      *)
(***************************************************************************)
C1_ContractImplIsFirstInherentImplOfContractType ==
    LastCall = "find_contract_impl_id" =>
        /\ ret_item = ContractImplOf(item_ids)
        /\ ret_item # None =>
              /\ Crate[ret_item[1]].of_trait = None
              /\ \E e \in Range(item_ids) :
                    /\ ImplementsContractEnv(e)
                    /\ Crate[e].self_ty.res = Crate[ret_item[1]].self_ty.res

\* The list of P7: ContractEnv for T, the inherent impl for T, another trait
\* for T and an impl for U; the inherent impl for T is returned.
C1_Witness ==
    /\ LastCall = "find_contract_impl_id"
    /\ {5, 7, 8} \subseteq Range(item_ids)
    /\ ret_item = Some(6)

(***************************************************************************)
(* C2  find_contract_impl_id does not flatten: what it returns is an       *)
(* element of the list it was handed, and impls that occur only inside the *)
(* block of a `const _: () = { .. }` of that list are not looked at: with  *)
(* no ContractEnv impl, or no inherent impl, among the elements themselves *)
(* the result is none.                                                     *)
(***************************************************************************)
C2_LocatorLooksOnlyAtTheListItIsHanded ==
    LastCall = "find_contract_impl_id" =>
        /\ ret_item # None => ret_item[1] \in Range(item_ids)
        /\ (\A e \in Range(item_ids) : ~ImplementsContractEnv(e)) => ret_item = None
        /\ (\A e \in Range(item_ids) : ~IsInherentImpl(e)) => ret_item = None

\* Called on the module's own items, the constant 12 among them holds both
\* impls in its block, and nothing is found.
C2_Witness ==
    /\ calls = <<"find_contract_impl_id">>
    /\ \E c \in Range(item_ids) :
          /\ \E e \in Range(NestedItems(c)) : ImplementsContractEnv(e)
          /\ \E m \in Range(NestedItems(c)) : IsInherentImpl(m)
    /\ ret_item = None

(***************************************************************************)
(* C3  (as stated) find_contract_impl_id flattens the list itself: handed  *)
(* only top-level items it returns the inherent impl found after running   *)
(* the Scope Flattener over them.                                          *)
(***************************************************************************)
C3_LocatorFlattensItself ==
    calls = <<"find_contract_impl_id">> =>
        ret_item = ContractImplOf(Flat(module_items))

(***************************************************************************)
(* C3  (amended) find_contract_impl_id does not run the Scope Flattener:   *)
(* handed top-level items none of which implements ContractEnv it returns  *)
(* none, whatever their blocks hold.  Handed the list that                 *)
(* expand_unnamed_consts returned for the top-level items, it returns the  *)
(* first inherent impl of the contract type of the flattened list, so the  *)
(* impls inside a `const _: () = { .. }` are found.                        *)
(***************************************************************************)
C3_LocatorFindsNestedImplsOnlyInExpandedList ==
    /\ (/\ calls = <<"find_contract_impl_id">>
        /\ \A e \in Range(module_items) : ~ImplementsContractEnv(e))
           => ret_item = None
    /\ calls = <<"expand_unnamed_consts", "find_contract_impl_id">>
           => ret_item = ContractImplOf(Flat(module_items))

\* The module holds no impl itself, only constants; the inherent impl in
\* the block of a constant is returned for the expanded list.
C3_Witness ==
    /\ calls = <<"expand_unnamed_consts", "find_contract_impl_id">>
    /\ \A e \in Range(module_items) : Crate[e].kind = "Const"
    /\ ret_item # None
    /\ ret_item[1] \notin Range(module_items)
    /\ IsInherentImpl(ret_item[1])

(***************************************************************************)
(* C4  find_storage_struct returns the first id, in input order, whose     *)
(* item is a struct and carries one of the two storage markers, and none   *)
(* exactly when there is no such id; an item of another kind with the      *)
(* marker, or a struct without it, is never returned.                      *)
(***************************************************************************)
C4_StorageStructIsFirstMarkedStruct ==
    LastCall = "find_storage_struct" =>
        LET s == item_ids
            Marked(i) ==
                \E a \in DOMAIN Crate[i].attrs :
                    \E t \in DOMAIN Crate[i].attrs[a] :
                        Crate[i].attrs[a][t] \in {"__ink_dylint_Storage", "fortanix"}
            Q == {k \in DOMAIN s : Crate[s[k]].kind = "Struct" /\ Marked(s[k])}
        IN /\ ret_item = IF Q = {} THEN None ELSE Some(s[Min(Q)])
           /\ ret_item # None => ret_item[1] \in Range(s)

\* A marked enum and an unmarked struct come first and are passed over.
C4_Witness ==
    /\ LastCall = "find_storage_struct"
    /\ Len(item_ids) = 3
    /\ item_ids[1] = 4 /\ item_ids[2] = 3
    /\ ret_item = Some(item_ids[3])

(***************************************************************************)
(* C5  items_in_unnamed_const returns, for a constant of type () whose     *)
(* initializer is a block, the ids of the item statements directly in the  *)
(* block, in source order, and the empty sequence for every other item.    *)
(***************************************************************************)
C5_NestedItemsAreTheItemStatementsOfTheBlock ==
    LastCall = "items_in_unnamed_const" =>
        LET stmts == Crate[id].body.value.stmts
            At == {k \in DOMAIN stmts : stmts[k].kind = "Item"}
        IN IF /\ Crate[id].kind = "Const"
              /\ Crate[id].ty = TyTup(Crate[id].ty.hir_id, <<>>)
              /\ Crate[id].body.value.kind = "Block"
           THEN /\ Len(ret_items) = Cardinality(At)
                /\ \E f \in [1..Len(ret_items) -> At] :
                      /\ \A m, n \in 1..Len(ret_items) : m < n => f[m] < f[n]
                      /\ \A n \in 1..Len(ret_items) : ret_items[n] = stmts[f[n]].item
           ELSE ret_items = <<>>

\* const _: () = { <5>; 0; <6>; <13> } gives 5, 6, 13.
C5_Witness ==
    /\ LastCall = "items_in_unnamed_const"
    /\ \E k \in DOMAIN Crate[id].body.value.stmts :
          Crate[id].body.value.stmts[k].kind # "Item"
    /\ Len(ret_items) = 3

(***************************************************************************)
(* C6  expand_unnamed_consts returns each input id followed at once by the *)
(* ids nested in it, in input order: its length is the input length plus   *)
(* the number of nested ids, the input is a subsequence of it, and the     *)
(* nested ids of an element come before the next element.                  *)
(***************************************************************************)
C6_ExpansionIsEachIdThenItsNestedItems ==
    calls = <<"expand_unnamed_consts">> =>
        LET s == item_ids
            out == ret_items
            Start[i \in 1..(Len(s) + 1)] ==
                IF i = 1 THEN 1
                ELSE Start[i - 1] + 1 + Len(NestedItems(s[i - 1]))
        IN /\ Len(out) = Start[Len(s) + 1] - 1
           /\ Len(out) >= Len(s)
           /\ \A i \in DOMAIN s :
                 /\ out[Start[i]] = s[i]
                 /\ \A k \in DOMAIN NestedItems(s[i]) :
                       out[Start[i] + k] = NestedItems(s[i])[k]

\* [X, C] with C = const _: () = { A; ..; B; .. } gives [X, C, A, B, ..].
C6_Witness ==
    /\ calls = <<"expand_unnamed_consts">>
    /\ Len(item_ids) = 2
    /\ Crate[item_ids[1]].kind = "Struct"
    /\ Len(ret_items) = 5
    /\ ret_items[1] = item_ids[1] /\ ret_items[2] = item_ids[2]
    /\ ret_items[3] = 5 /\ ret_items[4] = 6

(***************************************************************************)
(* C7  Flattening is one level deep: every id of the output is an input id *)
(* or an item statement directly in the block of an input id.  An item D   *)
(* in the block of a constant A that is itself nested in an input constant *)
(* C is in the output only if A or D is in the input.                      *)
(***************************************************************************)
C7_ExpansionIsOneLevelDeep ==
    calls = <<"expand_unnamed_consts">> =>
        \A x \in Range(ret_items) :
            \/ x \in Range(item_ids)
            \/ \E c \in Range(item_ids) :
                  /\ Crate[c].kind = "Const"
                  /\ \E k \in DOMAIN Crate[c].body.value.stmts :
                        Crate[c].body.value.stmts[k] = StmtItem(x)

\* C = 12 holds A = 13, which holds D = 8: A is in the output, D is not.
C7_Witness ==
    /\ calls = <<"expand_unnamed_consts">>
    /\ \E c \in Range(item_ids), a \in ItemIds, d \in ItemIds :
          /\ a \in Range(NestedItems(c))
          /\ d \in Range(NestedItems(a))
          /\ a \notin Range(item_ids) /\ d \notin Range(item_ids)
          /\ a \in Range(ret_items)
          /\ d \notin Range(ret_items)

(***************************************************************************)
(* C8  eq_hir_struct_tys(lhs, rhs) is true exactly when both are resolved  *)
(* paths with the same resolution, however they are spelled; a path and a  *)
(* type of another shape, or two types of another shape, are not equal.    *)
(***************************************************************************)
C8_SameTypeIsSameResolutionOfTwoPaths ==
    LastCall = "eq_hir_struct_tys" =>
        /\ ret_bool <=> (/\ IsResolvedPath(lhs) /\ IsResolvedPath(rhs)
                         /\ lhs.res.tag = rhs.res.tag
                         /\ lhs.res.def_id = rhs.res.def_id)
        /\ (lhs.kind # "Path" \/ rhs.kind # "Path") => ~ret_bool

\* Two spellings of the same struct are the same type.
C8_Witness ==
    /\ LastCall = "eq_hir_struct_tys"
    /\ lhs.segments # rhs.segments
    /\ lhs.res = ResDef(DefContract)
    /\ ret_bool

(***************************************************************************)
(* C9  find_contract_ty_hir returns the self type of the first element, in *)
(* input order, that is an impl block of ContractEnv, passing over impls   *)
(* of other traits, inherent impls and other items; it returns none        *)
(* exactly when no element implements ContractEnv.                         *)
(***************************************************************************)
C9_ContractTypeIsSelfTypeOfFirstContractEnvImpl ==
    LastCall = "find_contract_ty_hir" =>
        LET s == item_ids
            E == {i \in DOMAIN s : ImplementsContractEnv(s[i])}
        IN /\ ret_ty = IF E = {} THEN None ELSE Some(Crate[s[Min(E)]].self_ty)
           /\ ret_ty = None <=> E = {}

\* An impl of a trait that is only named ContractEnv is passed over, and of
\* two ContractEnv impls the first decides.
C9_Witness ==
    /\ LastCall = "find_contract_ty_hir"
    /\ item_ids = <<7, 9, 5>>
    /\ ret_ty = Some(Crate[9].self_ty)

(***************************************************************************)
(* C10  When the self type of the first ContractEnv impl is not a resolved *)
(* path, find_contract_impl_id returns none, also when the list holds an   *)
(* inherent impl written for that same type; and whatever is returned has  *)
(* the resolution of the first ContractEnv impl's self type, never only of *)
(* a later one's.                                                          *)
(***************************************************************************)
C10_OnlyFirstContractTypeAndOnlyPaths ==
    LastCall = "find_contract_impl_id" =>
        LET s == item_ids
            E == {i \in DOMAIN s : ImplementsContractEnv(s[i])}
        IN /\ (E # {} /\ ~IsResolvedPath(Crate[s[Min(E)]].self_ty))
                  => ret_item = None
           /\ ret_item # None =>
                 /\ E # {}
                 /\ IsResolvedPath(Crate[s[Min(E)]].self_ty)
                 /\ Crate[ret_item[1]].self_ty.res = Crate[s[Min(E)]].self_ty.res

\* ContractEnv is implemented for dyn Api first; the list also holds
\* impl dyn Api, a later ContractEnv impl for Contract and impl Contract.
C10_Witness ==
    /\ LastCall = "find_contract_impl_id"
    /\ Len(item_ids) >= 2
    /\ item_ids[1] = 10
    /\ {11, 5, 6} \subseteq Range(item_ids)
    /\ ret_item = None

====
